---- MODULE Spec2Model ----
(***************************************************************************)
(* Model of the trading-journal backend (Payload CMS collections).         *)
(*                                                                         *)
(* Part 1: the write path of the Trades collection                         *)
(*   (src/src/collections/Trades.ts): a create or update presents the      *)
(*   field hooks with the submitted fields laid over the stored document   *)
(*   (partial updates: compare the hooks' own payload.update calls, which  *)
(*   submit a single field of a document with other required fields),      *)
(*   runs the field-level beforeChange hooks of `status` and               *)
(*   `targetPositionSize`, validates the required number fields and        *)
(*   stores the result.                                                    *)
(* Part 2: the after-change rollup hooks of the Charts collection          *)
(*   (src/src/hooks/updateTickerStats.ts, updateTickerTags.ts), run as     *)
(*   interleaved asynchronous invocations on one event loop.               *)
(* Part 3: GET /stats and calculateTradeStats (Trades.ts).                 *)
(* Part 4: the field hooks of status, daysHeld and positionSize run on     *)
(*   one trade, and GET /:id/story (Trades.ts).                            *)
(* Part 5: keyboardNavId and the /next, /previous endpoints of Charts.     *)
(* Part 6: the donation and PayPal capture routes.                         *)
(***************************************************************************)
EXTENDS Integers, Sequences, FiniteSets, TLC

VARIABLES
    trade,      \* the stored trade document (one trade is followed)
    last,       \* what the latest write presented to the field hooks
    chart,      \* charts collection: write id -> stored chart, or NoChart
    pc,         \* where the after-change hooks of each chart write stand
    seen,       \* the charts the invocation's latest find returned
    pending,    \* tag ids whose count update the invocation has in flight
    outcome,    \* per invocation: what it returned, whether a call threw
    updatingTickers,    \* module-level Set of updateTickerTags.ts
    updatingTags,       \* module-level Set of updateTickerTags.ts
    tickers,    \* tickers collection: ticker -> [tags, chartsCount]
    tagCounts,  \* tags collection: tag id -> chartsCount
    derivation, \* the latest run of the status hook: arguments and result
    fetched,    \* the trades array of the latest calculateTradeStats call
    leftover,   \* winners / losers / breakEven as that call left them
    snapshot,   \* what that call returned
    response,   \* the latest answer of GET /stats
    hooked,     \* the field hooks' runs on one trade: inputs, clock, results
    story,      \* the latest answer of GET /:id/story
    nav,        \* charts collection as navigation sees it, and each creation's hook
    walk,       \* a client paging through the charts
    donations,  \* donations collection, in order of creation
    request     \* the latest request to a donation route and its answer

tradeVars == <<trade, last>>
rollupVars ==
    <<chart, pc, seen, pending, outcome, updatingTickers, updatingTags, tickers, tagCounts>>
queryVars == <<derivation, fetched, leftover, snapshot, response>>
calcVars == <<hooked, story>>
navVars == <<nav, walk>>
donationVars == <<donations, request>>
vars == <<tradeVars, rollupVars, queryVars, calcVars, navVars, donationVars>>

(***************************************************************************)
(* Bounds and program constants                                            *)
(***************************************************************************)
MaxShares == 2
MaxExits == 2
MaxStops == 1
MaxWrites == 2
MaxTrades == 3
MaxDocs == 2
MaxDated == 2
MaxRuns == 2
MaxCharts == 3
MaxDonations == 2
MaxRequests == 4
DefaultTarget == 25000

Statuses == {"open", "partial", "closed"}
\* `value` of the status field as a hook can receive it: a select option or
\* an explicit null ("null"), which `value || 'open'` treats as missing
StatusValues == Statuses \cup {"null"}
\* 0 stands for a missing (undefined / null / 0) number: all falsy in `a || b`
TargetValues == {10000, 50000}
UserPreferences == {0, 50000}
NoteTexts == {"n0", "n1"}

(***************************************************************************)
(* Exit records: only `shares` matters to the status derivation.  A raw    *)
(* value is a number, a numeric string or something parseFloat cannot read.*)
(***************************************************************************)
NumShares == [k : {"num"}, n : 0..MaxShares]
OddShares == {[k |-> "str", n |-> 1], [k |-> "bad", n |-> 0]}

\* a record without a shares value (undefined)
MissingShares == [k |-> "none", n |-> 0]
RawShares == NumShares \cup OddShares \cup {MissingShares}

\* parseFloat(String(exit.shares)) || 0
ParseSharesNumbersOnly(e) == IF e.k = "num" THEN e.n ELSE 0
ParseShares(e) == IF e.k \in {"bad", "none"} THEN 0 ELSE e.n

RECURSIVE SeqsUpTo(_, _)
SeqsUpTo(S, n) ==
    IF n = 0 THEN {<<>>}
    ELSE LET shorter == SeqsUpTo(S, n - 1)
         IN  shorter \cup {Append(s, x) : s \in {t \in shorter : Len(t) = n - 1}, x \in S}

\* every ledger of numbers up to MaxExits records, and the ledgers whose
\* last record carries a string or malformed shares value
Ledgers ==
    SeqsUpTo(NumShares, MaxExits)
      \cup {Append(s, o) : s \in SeqsUpTo(NumShares, MaxExits - 1), o \in OddShares}
\* every ledger of raw records, for the derivation taken alone
RawLedgers == SeqsUpTo(RawShares, MaxExits)
\* the short ledgers used where the ledger is not what is explored
ShortLedgers == {<<>>} \cup {<<e>> : e \in NumShares}

\* exits.reduce((sum, exit) => sum + (parseFloat(String(exit.shares)) || 0), 0)
RECURSIVE TotalSharesExited(_)
TotalSharesExited(exits) ==
    IF exits = <<>> THEN 0
    ELSE ParseShares(Head(exits)) + TotalSharesExited(Tail(exits))

(***************************************************************************)
(* status.hooks.beforeChange                                               *)
(***************************************************************************)
ValueOrOpenNoDefault(value) == value
\* value || 'open'
ValueOrOpen(value) == IF value = "null" THEN "open" ELSE value

StatusBeforeChangeStrict(value, exits, shares) ==
    IF Len(exits) > 0 /\ TotalSharesExited(exits) > shares THEN "closed"
    ELSE IF Len(exits) > 0 /\ TotalSharesExited(exits) > 0 THEN "partial"
    ELSE ValueOrOpen(value)
StatusBeforeChangeNoPartial(value, exits, shares) ==
    IF Len(exits) > 0 /\ TotalSharesExited(exits) > 0 THEN "closed"
    ELSE ValueOrOpen(value)
StatusBeforeChange(value, exits, shares) ==
    IF Len(exits) > 0 /\ TotalSharesExited(exits) >= shares THEN "closed"
    ELSE IF Len(exits) > 0 /\ TotalSharesExited(exits) > 0 THEN "partial"
    ELSE ValueOrOpen(value)

(***************************************************************************)
(* targetPositionSize.hooks.beforeChange                                   *)
(* pref is what the users lookup yielded (0: no user, no preference, or    *)
(* the lookup threw and was caught)                                        *)
(***************************************************************************)
TargetBeforeChange(value, operation, pref) ==
    IF operation = "create"
    THEN IF value # 0 THEN value
         ELSE IF pref # 0 THEN pref ELSE DefaultTarget
    ELSE value

(***************************************************************************)
(* Documents and patches                                                   *)
(***************************************************************************)
NoTrade ==
    [exists |-> FALSE, exits |-> <<>>, shares |-> 0, status |-> "open",
     targetPositionSize |-> 0, stops |-> 0, notes |-> "n0"]
NoWrite == [op |-> "none", ok |-> FALSE, fields |-> {}, value |-> "null"]

\* A patch: the submitted fields (`fields`) and their values; a field that is
\* not submitted carries a fixed filler that is never read.
Patch(fields, exits, shares, status, target, notes) ==
    [fields |-> fields, exits |-> exits, shares |-> shares, status |-> status,
     targetPositionSize |-> target, notes |-> notes]

StatusChoices == {<<{}, "null">>} \cup {<<{"status"}, v>> : v \in StatusValues}

LedgerPatches(L) ==
    {Patch({"exits"} \cup sc[1], l, 0, sc[2], 0, "n0") : l \in L, sc \in StatusChoices}
SharesPatches ==
    {Patch({"shares"} \cup sc[1], <<>>, s, sc[2], 0, "n0") :
        s \in 0..MaxShares, sc \in StatusChoices}
StatusPatches == {Patch({"status"}, <<>>, 0, v, 0, "n0") : v \in StatusValues}
TargetPatches == {Patch({"targetPositionSize"}, <<>>, 0, "null", t, "n0") : t \in TargetValues}
StopNotePatches ==
    {Patch(f, <<>>, 0, "null", 0, n) :
        f \in {{"modifiedStops"}, {"notes"}, {"modifiedStops", "notes"}}, n \in NoteTexts}
CreatePatches(L, T) ==
    {Patch({"exits", "shares"} \cup sc[1] \cup (IF t = 0 THEN {} ELSE {"targetPositionSize"}),
           l, s, sc[2], t, "n0") :
        l \in L, s \in 0..MaxShares, sc \in StatusChoices, t \in T}
      \cup {Patch({"exits"}, <<>>, 0, "null", 0, "n0")}

\* a stored exit read back from the database is a number
Stored(exits) == [i \in 1..Len(exits) |-> [k |-> "num", n |-> exits[i]]]
Persist(exits) == [i \in 1..Len(exits) |-> ParseShares(exits[i])]

\* siblingData as the field hooks see it: submitted over stored
MergedExits(p, doc) == IF "exits" \in p.fields THEN p.exits ELSE Stored(doc.exits)
MergedSharesNoMerge(p, doc) == IF "shares" \in p.fields THEN p.shares ELSE 0
MergedShares(p, doc) == IF "shares" \in p.fields THEN p.shares ELSE doc.shares
MergedStatusNoMerge(p, doc, operation) ==
    IF "status" \in p.fields THEN p.status ELSE "null"
\* missing on update: the stored value; missing on create: defaultValue 'open'
MergedStatus(p, doc, operation) ==
    IF "status" \in p.fields THEN p.status
    ELSE IF operation = "update" THEN doc.status ELSE "open"
MergedTarget(p, doc, operation) ==
    IF "targetPositionSize" \in p.fields THEN p.targetPositionSize
    ELSE IF operation = "update" THEN doc.targetPositionSize ELSE 0
MergedStops(p, doc) ==
    IF "modifiedStops" \in p.fields THEN doc.stops + 1 ELSE doc.stops
MergedNotes(p, doc) == IF "notes" \in p.fields THEN p.notes ELSE doc.notes

\* shares: type 'number', required: true (a create must submit it)
SharesRequired(p, operation) == operation = "create" => "shares" \in p.fields
\* exits[].shares: type 'number', required: true (must read as a number)
ExitSharesValid(p) ==
    "exits" \in p.fields => \A i \in 1..Len(p.exits) : p.exits[i].k \notin {"bad", "none"}
\* the collection-level beforeChange hooks (calculateTradeMetricsHook and the
\* two after it) compute derived fields; they reject a write only when a
\* structurally required input is absent, never for a numeric edge case
CalculatorRaises(p, operation) == operation = "create" /\ "shares" \notin p.fields

\* the write is accepted
Valid(p, operation) ==
    /\ ~CalculatorRaises(p, operation)
    /\ SharesRequired(p, operation)
    /\ ExitSharesValid(p)

\* the document a write stores
Written(p, doc, operation, pref) ==
    [exists |-> TRUE,
     exits |-> Persist(MergedExits(p, doc)),
     shares |-> MergedShares(p, doc),
     status |-> StatusBeforeChange(MergedStatus(p, doc, operation),
                                   MergedExits(p, doc), MergedShares(p, doc)),
     targetPositionSize |-> TargetBeforeChange(MergedTarget(p, doc, operation), operation, pref),
     stops |-> MergedStops(p, doc),
     notes |-> MergedNotes(p, doc)]

Presented(p, doc, operation) ==
    [op |-> operation, ok |-> Valid(p, operation), fields |-> p.fields,
     value |-> MergedStatus(p, doc, operation)]

(***************************************************************************)
(* Operations on the trade                                                 *)
(***************************************************************************)
Create(L, T, U) ==
    /\ ~trade.exists
    /\ \E p \in CreatePatches(L, T), pref \in U :
          /\ last' = Presented(p, NoTrade, "create")
          /\ trade' = IF Valid(p, "create") THEN Written(p, NoTrade, "create", pref) ELSE trade
    /\ UNCHANGED <<rollupVars, queryVars, calcVars, navVars, donationVars>>

Update(P) ==
    /\ trade.exists
    /\ \E p \in P :
          /\ "modifiedStops" \in p.fields => trade.stops < MaxStops
          /\ last' = Presented(p, trade, "update")
          /\ trade' = IF Valid(p, "update") THEN Written(p, trade, "update", 0) ELSE trade
    /\ UNCHANGED <<rollupVars, queryVars, calcVars, navVars, donationVars>>

Delete ==
    /\ trade.exists
    /\ trade' = NoTrade
    /\ last' = [NoWrite EXCEPT !.op = "delete", !.ok = TRUE]
    /\ UNCHANGED <<rollupVars, queryVars, calcVars, navVars, donationVars>>


(***************************************************************************)
(* Part 3: the statistics endpoint and calculateTradeStats                 *)
(*   (src/src/collections/Trades.ts, endpoints[0] and the helper below     *)
(*   the collection).                                                      *)
(*                                                                         *)
(* JavaScript numbers are modelled as exact fractions n/d with d >= 0:     *)
(*   d > 0 a finite number, 1/0 and -1/0 the infinities, 0/0 NaN.  A       *)
(*   missing (undefined) numeric property is 0/0 as well: in every use     *)
(*   below (arithmetic, comparison, `x || y`) undefined behaves as NaN.    *)
(***************************************************************************)
RECURSIVE GCD(_, _)
GCD(a, b) == IF b = 0 THEN a ELSE GCD(b, a % b)
Abs(i) == IF i < 0 THEN -i ELSE i
Sign(i) == IF i > 0 THEN 1 ELSE IF i < 0 THEN -1 ELSE 0

Num(n, d) ==
    IF d = 0 THEN [n |-> Sign(n), d |-> 0]
    ELSE LET g == GCD(Abs(n), Abs(d))
         IN  [n |-> (Sign(d) * n) \div g, d |-> Abs(d) \div g]
Rat(i) == [n |-> i, d |-> 1]
Zero == Rat(0)
NaN == [n |-> 0, d |-> 0]
Undefined == NaN

Add(x, y) == Num(x.n * y.d + y.n * x.d, x.d * y.d)
Mul(x, y) == Num(x.n * y.n, x.d * y.d)
Recip(x) ==
    IF x.n > 0 THEN [n |-> x.d, d |-> x.n]
    ELSE IF x.n < 0 THEN [n |-> -x.d, d |-> -x.n]
    ELSE IF x.d = 0 THEN NaN ELSE [n |-> 1, d |-> 0]
Div(x, y) == Mul(x, Recip(y))
SubSwapped(x, y) == Add(y, [n |-> -x.n, d |-> x.d])
Sub(x, y) == Add(x, [n |-> -y.n, d |-> y.d])
\* Math.abs
MathAbsSigned(x) == x
MathAbs(x) == [n |-> Abs(x.n), d |-> x.d]
\* x > 0, x < 0 (false for NaN)
Positive(x) == x.n > 0
Negative(x) == x.n < 0
\* x < y (false when either is NaN)
Less(x, y) ==
    /\ x # NaN /\ y # NaN
    /\ IF x.d = 0 /\ y.d = 0 THEN x.n < y.n ELSE x.n * y.d < y.n * x.d
\* x !== 0
NotZero(x) == x # Zero
\* truthiness of a number: 0 and NaN (and undefined) are falsy
Truthy(x) == x.n # 0
\* x || y
OrElse(x, y) == IF Truthy(x) THEN x ELSE y

\* arr.reduce((sum, e) => sum + f(e), 0), left to right, for the values f(e)
RECURSIVE SumLeft(_, _)
SumLeft(acc, values) ==
    IF values = <<>> THEN acc ELSE SumLeft(Add(acc, Head(values)), Tail(values))
Sum(values) == SumLeft(Zero, values)
\* arr.map(f)
Length(arr) == Rat(Len(arr))

(***************************************************************************)
(* Trades as the statistics code reads them (interface TradeForStats and   *)
(* the fields the endpoint's date filter reads)                            *)
(***************************************************************************)
NoMetrics ==
    [present |-> FALSE, profitLossAmount |-> Undefined, profitLossPercent |-> Undefined,
     rRatio |-> Undefined]
Metrics(amount, percent, r) ==
    [present |-> TRUE, profitLossAmount |-> amount, profitLossPercent |-> percent, rRatio |-> r]
StatTrade(status, ticker, entryDate, exitDates, amount, percent, r, days, price, shares, size, factor, metrics) ==
    [status |-> status, ticker |-> ticker, entryDate |-> entryDate, exitDates |-> exitDates,
     profitLossAmount |-> amount, profitLossPercent |-> percent, rRatio |-> r,
     daysHeld |-> days, entryPrice |-> price, shares |-> shares, positionSize |-> size,
     normalizationFactor |-> factor, normalizedMetrics |-> metrics]

\* the trades the aggregator is run on: winners, losers and a break-even
\* trade, with and without normalizedMetrics, normalizationFactor, rRatio
\* and daysHeld
StatTrades ==
    {StatTrade("closed", "T1", 4, <<5>>, Rat(20), Rat(2), Rat(1), Rat(3), Rat(10), Rat(10),
               Rat(100), Rat(2), Metrics(Rat(10), Rat(2), Rat(1))),
     StatTrade("partial", "T1", 4, <<5>>, Rat(40), Rat(4), Undefined, Undefined, Rat(10), Rat(10),
               Rat(100), Rat(1), Metrics(Rat(40), Rat(4), Undefined)),
     StatTrade("closed", "T1", 4, <<5>>, Rat(10), Rat(1), Rat(2), Rat(1), Rat(10), Rat(10),
               Rat(100), Rat(2), NoMetrics),
     StatTrade("closed", "T1", 4, <<5>>, Rat(30), Rat(3), Rat(1), Rat(2), Rat(10), Rat(10),
               Rat(100), Undefined, Metrics(Rat(30), Rat(3), Rat(1))),
     StatTrade("closed", "T1", 4, <<5>>, Rat(-10), Rat(-2), Rat(-1), Rat(2), Rat(5), Rat(10),
               Rat(50), Rat(1), Metrics(Rat(-10), Rat(-2), Rat(-1))),
     StatTrade("partial", "T1", 4, <<5>>, Rat(-20), Rat(-1), Undefined, Rat(4), Rat(10), Rat(20),
               Rat(200), Undefined, NoMetrics),
     StatTrade("closed", "T1", 4, <<5>>, Zero, Zero, Zero, Zero, Zero, Zero,
               Zero, Zero, Metrics(Zero, Zero, Zero)),
     StatTrade("closed", "T1", 4, <<5>>, Rat(-30), Rat(-3), Rat(-2), Rat(1), Rat(10), Rat(10),
               Rat(100), Rat(-1), Metrics(Rat(30), Rat(-3), Rat(-2)))}

\* calculateTradeStats, line by line ---------------------------------------

\* const winners = [], losers = [], breakEven = []
EmptyArrays == [winners |-> <<>>, losers |-> <<>>, breakEven |-> <<>>]
NewArraysKept(left) == left
NewArrays(left) == EmptyArrays

IsWinner(t) == Positive(t.profitLossPercent)
IsLoserOrTie(t) == ~Positive(t.profitLossPercent)
IsLoser(t) == Negative(t.profitLossPercent)

\* trades.forEach(trade => { if (...) winners.push(trade) else if ... })
RECURSIVE Separate(_, _)
Separate(arrays, trades) ==
    IF trades = <<>> THEN arrays
    ELSE LET t == Head(trades)
             pushed ==
                IF IsWinner(t) THEN [arrays EXCEPT !.winners = Append(@, t)]
                ELSE IF IsLoser(t) THEN [arrays EXCEPT !.losers = Append(@, t)]
                ELSE [arrays EXCEPT !.breakEven = Append(@, t)]
         IN  Separate(pushed, Tail(trades))

\* denominator !== 0 ? numerator / denominator : 0
RatioUnguarded(numerator, denominator) == Div(numerator, denominator)
Ratio(numerator, denominator) ==
    IF NotZero(denominator) THEN Div(numerator, denominator) ELSE Zero
\* arr.length ? sum / arr.length : 0
Mean(values) == IF Len(values) # 0 THEN Div(Sum(values), Length(values)) ELSE Zero

\* Math.max(...values), Math.min(...values) of a non-empty array
RECURSIVE MathMax(_)
MathMaxLast(values) == values[Len(values)]
MathMax(values) ==
    IF Len(values) = 1 THEN Head(values)
    ELSE LET m == MathMax(Tail(values))
         IN  IF Less(m, Head(values)) THEN Head(values) ELSE m
RECURSIVE MathMin(_)
MathMin(values) ==
    IF Len(values) = 1 THEN Head(values)
    ELSE LET m == MathMin(Tail(values))
         IN  IF Less(Head(values), m) THEN Head(values) ELSE m
\* let max = 0; arr.forEach(v => { if (v > max) max = v })
RECURSIVE RunningMax(_, _)
RunningMax(max, values) ==
    IF values = <<>> THEN max
    ELSE RunningMax(IF Less(max, Head(values)) THEN Head(values) ELSE max, Tail(values))
RECURSIVE RunningMin(_, _)
RunningMin(min, values) ==
    IF values = <<>> THEN min
    ELSE RunningMin(IF Less(Head(values), min) THEN Head(values) ELSE min, Tail(values))

PercentOf(t) == t.profitLossPercent
AmountOf(t) == t.profitLossAmount
RRatioOrZero(t) == OrElse(t.rRatio, Zero)
DaysHeldOrZero(t) == OrElse(t.daysHeld, Zero)
Invested(t) == Mul(t.entryPrice, t.shares)
NormalizedPercentOf(t) == t.normalizedMetrics.profitLossPercent
NormalizedAmountOf(t) == t.normalizedMetrics.profitLossAmount
NormalizedAmountOrZero(t) == OrElse(t.normalizedMetrics.profitLossAmount, Zero)
NormalizedRRatioOrZero(t) == OrElse(t.normalizedMetrics.rRatio, Zero)

HasNormalizedMetrics(t) == t.normalizedMetrics.present
IsNormalizedWinner(t) == Positive(t.normalizedMetrics.profitLossPercent)
IsNormalizedLoser(t) == Negative(t.normalizedMetrics.profitLossPercent)

\* const factor = trade.normalizationFactor || 1
FactorNoDefault(t) == t.normalizationFactor
Factor(t) == OrElse(t.normalizationFactor, Rat(1))
\* factor > 0 ? sum + trade.positionSize / factor : sum
RECURSIVE InvestmentLeft(_, _)
InvestmentLeft(sum, trades) ==
    IF trades = <<>> THEN sum
    ELSE LET t == Head(trades)
         IN  InvestmentLeft(IF Positive(Factor(t)) THEN Add(sum, Div(t.positionSize, Factor(t)))
                            ELSE sum,
                            Tail(trades))
NormalizedInvestment(normalizedTrades) == InvestmentLeft(Zero, normalizedTrades)

Hundred == Rat(100)
StatusCount(trades, s) == Rat(Len(SelectSeq(trades, LAMBDA t : t.status = s)))

ZeroNormalized ==
    [totalProfitLoss |-> Zero, totalProfitLossPercent |-> Zero, averageRRatio |-> Zero,
     profitFactor |-> Zero, maxGainPercent |-> Zero, maxLossPercent |-> Zero,
     maxGainLossRatio |-> Zero, averageWinPercent |-> Zero, averageLossPercent |-> Zero,
     winLossRatio |-> Zero, adjustedWinLossRatio |-> Zero, expectancy |-> Zero]

\* the stats object as initialised
InitialStats(trades) ==
    [totalTrades |-> Length(trades), winningTrades |-> Zero, losingTrades |-> Zero,
     breakEvenTrades |-> Zero, battingAverage |-> Zero, averageWinPercent |-> Zero,
     averageLossPercent |-> Zero, winLossRatio |-> Zero, adjustedWinLossRatio |-> Zero,
     averageRRatio |-> Zero, profitFactor |-> Zero, expectancy |-> Zero,
     averageDaysHeldWinners |-> Zero, averageDaysHeldLosers |-> Zero,
     maxGainPercent |-> Zero, maxLossPercent |-> Zero, maxGainLossRatio |-> Zero,
     totalProfitLoss |-> Zero, totalProfitLossPercent |-> Zero,
     tradeStatusCounts |-> [closed |-> StatusCount(trades, "closed"),
                            partial |-> StatusCount(trades, "partial")],
     normalized |-> ZeroNormalized]

\* the normalized sub-section, computed when normalizedTrades.length > 0
NormalizedStats(normalizedTrades, battingAverage) ==
    LET normalizedWinners == SelectSeq(normalizedTrades, IsNormalizedWinner)
        normalizedLosers == SelectSeq(normalizedTrades, IsNormalizedLoser)
        totalProfitLoss == Sum([ix \in 1..Len(normalizedTrades) |-> NormalizedAmountOrZero(normalizedTrades[ix])])
        normalizedInvestment == NormalizedInvestment(normalizedTrades)
        averageWinPercent ==
            IF Len(normalizedWinners) > 0
            THEN Mean([ix \in 1..Len(normalizedWinners) |-> NormalizedPercentOf(normalizedWinners[ix])]) ELSE Zero
        maxGainPercent ==
            IF Len(normalizedWinners) > 0
            THEN RunningMax(Zero, [ix \in 1..Len(normalizedWinners) |-> NormalizedPercentOf(normalizedWinners[ix])]) ELSE Zero
        averageLossPercent ==
            IF Len(normalizedLosers) > 0
            THEN Mean([ix \in 1..Len(normalizedLosers) |-> NormalizedPercentOf(normalizedLosers[ix])]) ELSE Zero
        maxLossPercent ==
            IF Len(normalizedLosers) > 0
            THEN RunningMin(Zero, [ix \in 1..Len(normalizedLosers) |-> NormalizedPercentOf(normalizedLosers[ix])]) ELSE Zero
        winRate == Div(battingAverage, Hundred)
        normalizedGrossWins == Sum([ix \in 1..Len(normalizedWinners) |-> NormalizedAmountOf(normalizedWinners[ix])])
        normalizedGrossLosses == MathAbs(Sum([ix \in 1..Len(normalizedLosers) |-> NormalizedAmountOf(normalizedLosers[ix])]))
    IN  [totalProfitLoss |-> totalProfitLoss,
         totalProfitLossPercent |->
            Mul(Ratio(totalProfitLoss, normalizedInvestment), Hundred),
         averageRRatio |->
            Div(Sum([ix \in 1..Len(normalizedTrades) |-> NormalizedRRatioOrZero(normalizedTrades[ix])]), Length(normalizedTrades)),
         profitFactor |-> Ratio(normalizedGrossWins, normalizedGrossLosses),
         maxGainPercent |-> maxGainPercent,
         maxLossPercent |-> maxLossPercent,
         maxGainLossRatio |-> MathAbs(Ratio(maxGainPercent, maxLossPercent)),
         averageWinPercent |-> averageWinPercent,
         averageLossPercent |-> averageLossPercent,
         winLossRatio |-> MathAbs(Ratio(averageWinPercent, averageLossPercent)),
         adjustedWinLossRatio |->
            IF NotZero(averageLossPercent) /\ Less(battingAverage, Hundred)
            THEN Div(Mul(winRate, averageWinPercent),
                     Mul(Sub(Rat(1), winRate), MathAbs(averageLossPercent)))
            ELSE Zero,
         expectancy |->
            Add(Mul(Div(battingAverage, Hundred), averageWinPercent),
                Mul(Sub(Rat(1), Div(battingAverage, Hundred)), averageLossPercent))]

\* the statistics of a non-empty trades array, given the arrays it was
\* separated into
StatsOf(trades, arrays) ==
    LET winners == arrays.winners
        losers == arrays.losers
        breakEven == arrays.breakEven
        battingAverage == Mul(Div(Length(winners), Length(trades)), Hundred)
        averageWinPercent == Mean([ix \in 1..Len(winners) |-> PercentOf(winners[ix])])
        averageLossPercent == Mean([ix \in 1..Len(losers) |-> PercentOf(losers[ix])])
        winRate == Div(battingAverage, Hundred)
        grossWins == Sum([ix \in 1..Len(winners) |-> AmountOf(winners[ix])])
        grossLosses == MathAbs(Sum([ix \in 1..Len(losers) |-> AmountOf(losers[ix])]))
        maxGainPercent == IF Len(winners) # 0 THEN MathMax([ix \in 1..Len(winners) |-> PercentOf(winners[ix])]) ELSE Zero
        maxLossPercent == IF Len(losers) # 0 THEN MathMin([ix \in 1..Len(losers) |-> PercentOf(losers[ix])]) ELSE Zero
        totalProfitLoss == Sum([ix \in 1..Len(trades) |-> AmountOf(trades[ix])])
        totalInvested == Sum([ix \in 1..Len(trades) |-> Invested(trades[ix])])
        normalizedTrades == SelectSeq(trades, HasNormalizedMetrics)
    IN  [totalTrades |-> Length(trades),
         winningTrades |-> Length(winners),
         losingTrades |-> Length(losers),
         breakEvenTrades |-> Length(breakEven),
         battingAverage |-> battingAverage,
         averageWinPercent |-> averageWinPercent,
         averageLossPercent |-> averageLossPercent,
         winLossRatio |-> MathAbs(Ratio(averageWinPercent, averageLossPercent)),
         adjustedWinLossRatio |->
            IF NotZero(averageLossPercent) /\ Less(battingAverage, Hundred)
            THEN Div(Mul(winRate, averageWinPercent),
                     Mul(Sub(Rat(1), winRate), MathAbs(averageLossPercent)))
            ELSE Zero,
         averageRRatio |-> Div(Sum([ix \in 1..Len(trades) |-> RRatioOrZero(trades[ix])]), Length(trades)),
         profitFactor |-> Ratio(grossWins, grossLosses),
         expectancy |->
            Add(Mul(Div(battingAverage, Hundred), averageWinPercent),
                Mul(Sub(Rat(1), Div(battingAverage, Hundred)), averageLossPercent)),
         averageDaysHeldWinners |-> Mean([ix \in 1..Len(winners) |-> DaysHeldOrZero(winners[ix])]),
         averageDaysHeldLosers |-> Mean([ix \in 1..Len(losers) |-> DaysHeldOrZero(losers[ix])]),
         maxGainPercent |-> maxGainPercent,
         maxLossPercent |-> maxLossPercent,
         maxGainLossRatio |-> MathAbs(Ratio(maxGainPercent, maxLossPercent)),
         totalProfitLoss |-> totalProfitLoss,
         totalProfitLossPercent |->
            Mul(Ratio(totalProfitLoss, totalInvested), Hundred),
         tradeStatusCounts |-> [closed |-> StatusCount(trades, "closed"),
                                partial |-> StatusCount(trades, "partial")],
         normalized |->
            IF Len(normalizedTrades) > 0
            THEN NormalizedStats(normalizedTrades, battingAverage) ELSE ZeroNormalized]

\* if (trades.length === 0) return stats
EarlyReturnNever(trades) == FALSE
EarlyReturn(trades) == Len(trades) = 0

\* the arrays a call leaves behind, and the snapshot it returns; `left` is
\* what an earlier call left behind
ArraysAfter(trades, left) ==
    IF EarlyReturn(trades) THEN NewArrays(left) ELSE Separate(NewArrays(left), trades)
CalculateTradeStats(trades, left) ==
    IF EarlyReturn(trades) THEN InitialStats(trades)
    ELSE StatsOf(trades, ArraysAfter(trades, left))

(***************************************************************************)
(* GET /stats                                                              *)
(* Instants are counted in ticks of a quarter of a day; a date-only query  *)
(* string names a day and parses to its UTC midnight; setHours works in    *)
(* the local time of the process, `tz` ticks ahead of UTC.                 *)
(***************************************************************************)
DayTicks == 4
FindLimit == 1000
TimeZones == {-1, 0, 1}
NoDate == -1
NoTicker == "none"

\* new Date(startDate), new Date(endDate)
ParseDate(day) == day * DayTicks
\* d.setHours(23, 59, 59, 999): the last instant of d's day on the local clock
SetHoursEndOfDay(instant, tz) ==
    ((instant + tz) \div DayTicks) * DayTicks + DayTicks - 1 - tz

\* query.status
StatusQueryAll(statusFilter) ==
    IF statusFilter = "closed-only" THEN {"closed"} ELSE Statuses
StatusQuery(statusFilter) ==
    IF statusFilter = "closed-only" THEN {"closed"} ELSE {"closed", "partial"}
\* payload.find({collection: 'trades', where: query, limit: 1000})
Matches(t, statusFilter, tickerId) ==
    /\ t.status \in StatusQuery(statusFilter)
    /\ tickerId # NoTicker => t.ticker = tickerId
FindTrades(docs, statusFilter, tickerId) ==
    LET matching == SelectSeq(docs, LAMBDA t : Matches(t, statusFilter, tickerId))
    IN  SubSeq(matching, 1, IF Len(matching) < FindLimit THEN Len(matching) ELSE FindLimit)

\* trade.exits.reduce((latest, exit) => new Date(exit.date) > new Date(latest)
\*                       ? exit.date : latest, trade.exits[0]?.date || trade.entryDate)
RECURSIVE LatestLeft(_, _)
LatestLeft(latest, dates) ==
    IF dates = <<>> THEN latest
    ELSE LatestLeft(IF Head(dates) > latest THEN Head(dates) ELSE latest, Tail(dates))
CompletionDate(t) ==
    IF Len(t.exitDates) > 0 THEN LatestLeft(t.exitDates[1], t.exitDates) ELSE t.entryDate

\* the predicate of trades.docs.filter(...)
InDateRange(t, startDate, endDate, tz) ==
    /\ startDate # NoDate => ~(CompletionDate(t) < ParseDate(startDate))
    /\ endDate # NoDate => ~(CompletionDate(t) > SetHoursEndOfDay(ParseDate(endDate), tz))
FilteredTrades(found, startDate, endDate, tz) ==
    IF startDate # NoDate \/ endDate # NoDate
    THEN SelectSeq(found, LAMBDA t : InDateRange(t, startDate, endDate, tz))
    ELSE found

NoResponse == [code |-> 0]
\* Response.json({ stats, metadata }); the request and the handler's locals
\* (trades.docs as `found`, filteredTrades) are kept beside it
StatsResponse(docs, startDate, endDate, tickerId, statusFilter, tz, left) ==
    LET found == FindTrades(docs, statusFilter, tickerId)
        filteredTrades == FilteredTrades(found, startDate, endDate, tz)
    IN  [code |-> 200, found |-> found,
         docs |-> docs, startDate |-> startDate, endDate |-> endDate, tickerId |-> tickerId,
         statusFilter |-> statusFilter, tz |-> tz,
         filteredTrades |-> filteredTrades,
         stats |-> CalculateTradeStats(filteredTrades, left),
         metadata |->
            [totalTrades |-> Len(filteredTrades),
             closedTrades |-> Len(SelectSeq(filteredTrades, LAMBDA t : t.status = "closed")),
             partialTrades |-> Len(SelectSeq(filteredTrades, LAMBDA t : t.status = "partial")),
             statusFilter |->
                IF statusFilter = "closed-only" THEN "Closed Only" ELSE "Closed and Partial",
             tickerFilter |-> tickerId # NoTicker]]
\* catch: Response.json({ message }, { status: 500 })
ErrorResponse == [code |-> 500]

\* the trades collection as a stats request finds it: every status, with and
\* without exits, completed before, inside and after day 1
EndpointTrade(status, ticker, entryDate, exitDates) ==
    StatTrade(status, ticker, entryDate, exitDates, Rat(20), Rat(2), Rat(1), Rat(3), Rat(10),
              Rat(10), Rat(100), Rat(1), Metrics(Rat(20), Rat(2), Rat(1)))
EndpointTrades ==
    {EndpointTrade(s, "T1", d[1], d[2]) :
        s \in Statuses, d \in {<<3, <<>>>>, <<5, <<>>>>, <<3, <<7>>>>, <<5, <<9, 4>>>>}}
      \cup {EndpointTrade("closed", "T2", 3, <<7>>)}
QueryDays == {NoDate, 1}
QueryTickers == {NoTicker, "T1"}
StatusFilters == {"closed-only", "all"}

NoDerivation ==
    [called |-> FALSE, value |-> "null", exits |-> <<>>, shares |-> 0,
     totalSharesExited |-> 0, status |-> "open"]
NoSnapshot == [called |-> FALSE, stats |-> InitialStats(<<>>), normalizedInvestment |-> Zero]


(***************************************************************************)
(* Part 4: the derived fields of one trade                                 *)
(*   (src/src/collections/Trades.ts: the field hooks of status, daysHeld   *)
(*   and positionSize run in field order on one siblingData, each result   *)
(*   written back into it; GET /:id/story).                                *)
(*                                                                         *)
(* An instant is a number of ticks since the epoch, DayTicks to the day;   *)
(* a Date is [ok, t], ok false for an Invalid Date (getTime() is NaN).     *)
(***************************************************************************)
Instant(t) == [ok |-> TRUE, t |-> t]
InvalidDate == [ok |-> FALSE, t |-> 0]
\* new Date(0)
Epoch == Instant(0)

\* exitDate > latest (false when either side is an Invalid Date)
After(a, b) == a.ok /\ b.ok /\ a.t > b.t

\* exits.reduce((latest, exit) => exitDate > latest ? exitDate : latest, seed)
RECURSIVE LatestFrom(_, _)
LatestFrom(latest, exits) ==
    IF exits = <<>> THEN latest
    ELSE LatestFrom(IF After(Head(exits).date, latest) THEN Head(exits).date ELSE latest,
                    Tail(exits))
LatestExitDate(exits) == LatestFrom(Epoch, exits)

\* Math.ceil(diffTime / (1000 * 60 * 60 * 24)) for diffTime >= 0
CeilDays(diffTime) == (diffTime + DayTicks - 1) \div DayTicks

\* daysHeld.hooks.beforeChange; 0 also stands for the NaN that `|| 0` replaces
DaysHeldBeforeChangeToday(status, exits, entryDate, now) ==
    IF entryDate.ok THEN CeilDays(Abs(now - entryDate.t)) ELSE 0
DaysHeldBeforeChange(status, exits, entryDate, now) ==
    LET endDate ==
            IF status = "closed" /\ Len(exits) > 0 THEN LatestExitDate(exits)
            ELSE Instant(now)
    IN  IF endDate.ok /\ entryDate.ok THEN CeilDays(Abs(endDate.t - entryDate.t)) ELSE 0

\* positionSize.hooks.beforeChange; prices in cents, 0 a missing or zero number
PositionSizeBeforeChange(entryPrice, shares, positionSize) ==
    IF entryPrice # 0 /\ shares # 0 THEN entryPrice * shares ELSE positionSize

\* the three hooks in field order on one siblingData
DerivedFields(data, now) ==
    LET status == StatusBeforeChange(data.status, data.exits, data.shares)
    IN  [status |-> status,
         daysHeld |-> DaysHeldBeforeChange(status, data.exits, data.entryDate, now),
         positionSize |->
            PositionSizeBeforeChange(data.entryPrice, data.shares, data.positionSize)]
\* siblingData of a later write that submits the same inputs: the derived
\* fields are the stored ones
Resubmitted(data, out) ==
    [data EXCEPT !.status = out.status, !.positionSize = out.positionSize]

ExitDates == {InvalidDate, Instant(-3), Instant(5), Instant(9)}
EntryDates == {InvalidDate, Instant(-6), Instant(2)}
DatedExits == [k : {"num"}, n : {1, 2}, date : ExitDates]
DatedLedgers == SeqsUpTo(DatedExits, MaxDated)
HookInputs ==
    [status : StatusValues, exits : DatedLedgers, shares : {0, 2, 3},
     entryDate : EntryDates, entryPrice : {0, 1000}, positionSize : {0, 5500}]
FirstClock == 10
ClockSteps == {0, 1, DayTicks}
NoRun ==
    [runs |-> 0,
     data |-> [status |-> "null", exits |-> <<>>, shares |-> 0, entryDate |-> InvalidDate,
               entryPrice |-> 0, positionSize |-> 0],
     now |-> 0,
     out |-> [status |-> "open", daysHeld |-> 0, positionSize |-> 0],
     before |-> [status |-> "open", daysHeld |-> 0, positionSize |-> 0],
     earlier |-> 0]

\* GET /:id/story -----------------------------------------------------------
\* exitPL of one exit record
ExitPLLongOnly(type, entryPrice, exit) == (exit.price - entryPrice) * exit.n
ExitPL(type, entryPrice, exit) ==
    IF type = "long" THEN (exit.price - entryPrice) * exit.n
    ELSE (entryPrice - exit.price) * exit.n

\* realized profitLossAmount as the calculator stores it: the exits' profit
\* and loss summed over all exits recorded so far
RECURSIVE RealizedProfitLoss(_, _, _)
RealizedProfitLoss(type, entryPrice, exits) ==
    IF exits = <<>> THEN 0
    ELSE ExitPL(type, entryPrice, Head(exits))
           + RealizedProfitLoss(type, entryPrice, Tail(exits))

TradeTypes == {"long", "short"}
PricedExits == [k : {"num"}, n : {4, 6, 10}, price : {90, 110}]
PricedLedgers == SeqsUpTo(PricedExits, MaxExits)
TradeSize == 10
\* a stored trade as findByID returns it
StoredTrade(type, entryPrice, exits) ==
    [type |-> type, entryPrice |-> entryPrice, shares |-> TradeSize, exits |-> exits,
     status |-> StatusBeforeChange("null", exits, TradeSize),
     profitLossAmount |-> RealizedProfitLoss(type, entryPrice, exits)]
StoredTrades ==
    {StoredTrade(type, entryPrice, exits) :
        type \in TradeTypes, entryPrice \in {50, 100}, exits \in PricedLedgers}

\* the exit events of the timeline, in ledger order
ExitEvents(doc) ==
    [i \in 1..Len(doc.exits) |->
        [type |-> "exit", price |-> doc.exits[i].price, shares |-> doc.exits[i].n,
         profitLoss |-> ExitPL(doc.type, doc.entryPrice, doc.exits[i])]]
NoStory == [code |-> 0]
StoryResponse(doc) ==
    [code |-> 200, trade |-> doc, exitEvents |-> ExitEvents(doc),
     status |-> doc.status, totalReturn |-> doc.profitLossAmount,
     eventCount |-> 1 + Len(doc.exits)]

(***************************************************************************)
(* Part 5: keyboard navigation over the charts                             *)
(*   (src/unnamed/part_000: the keyboardNavId field and the third          *)
(*   afterChange hook of Charts; src/src/collections/Charts.ts: the        *)
(*   endpoints /next/:id and /previous/:id).  The two rollup hooks ahead   *)
(*   of the third one return the document and are left to Part 2.          *)
(***************************************************************************)
ChartIds == 1..MaxCharts
\* keyboardNavId 0 stands for null
NeverCreated == [exists |-> FALSE, keyboardNavId |-> 0, pc |-> "new", count |-> 0]

\* keyboardNavId.hooks.beforeChange: value || null
KeyboardNavIdBeforeChange(value) == IF value # 0 THEN value ELSE 0

\* charts.find({ limit: 0 }).totalDocs
TotalDocs(charts) == Cardinality({c \in ChartIds : charts[c].exists})
StoredCharts == {c \in ChartIds : nav[c].exists}

\* where: { keyboardNavId: { greater_than: id } } / { less_than: id }
GreaterThan(id) == {c \in StoredCharts : nav[c].keyboardNavId > id}
LessThan(id) == {c \in StoredCharts : nav[c].keyboardNavId < id}
\* sort: 'keyboardNavId', limit: 1 (charts of equal keyboardNavId in the
\* order the database happens to return them: any of them can come first)
FirstOf(found) == {c \in found : \A d \in found : nav[c].keyboardNavId <= nav[d].keyboardNavId}
\* sort: '-keyboardNavId', limit: 1
LastOf(found) == {c \in found : \A d \in found : nav[c].keyboardNavId >= nav[d].keyboardNavId}

\* the charts /next/:id can answer with for the chart `current`
NextCharts(current) ==
    IF GreaterThan(nav[current].keyboardNavId) # {}
    THEN FirstOf(GreaterThan(nav[current].keyboardNavId))
    ELSE FirstOf(StoredCharts)
\* the charts /previous/:id can answer with
PreviousCharts(current) ==
    IF LessThan(nav[current].keyboardNavId) # {}
    THEN LastOf(LessThan(nav[current].keyboardNavId))
    ELSE LastOf(StoredCharts)

Directions == {"next", "previous"}
NoWalk == [dir |-> "none", start |-> 0, at |-> 0, visited |-> {}, steps |-> 0]

(***************************************************************************)
(* Part 6: donations                                                       *)
(*   (src/src/app/(payload)/api/donations/route.ts: POST;                  *)
(*   src/unnamed/part_001: GET of api/paypal-capture/route.ts).            *)
(***************************************************************************)
PaymentIds == {"P1", "P2"}
NoOrderId == "none"
Amounts == {0, 5}
\* what the payment service answers: { success: true }, { success: false },
\* or the call throws
GatewayResults == {"success", "failure", "throws"}

Donation(paymentId, status) == [paymentId |-> paymentId, status |-> status]
\* payload.find({ collection: 'donations', where: { paymentId: { equals } } })
FindDonations(docs, orderId) == {i \in 1..Len(docs) : docs[i].paymentId = orderId}
\* donations.docs[0]
FirstFound(found) == CHOOSE i \in found : \A j \in found : i <= j

\* the donations collection after a capture request whose update does not
\* throw
CapturedRegardless(docs, orderId, result) ==
    IF FindDonations(docs, orderId) = {} THEN docs
    ELSE [docs EXCEPT ![FirstFound(FindDonations(docs, orderId))].status = "completed"]
Captured(docs, orderId, result) ==
    IF orderId = NoOrderId \/ result # "success" THEN docs
    ELSE IF FindDonations(docs, orderId) = {} THEN docs
    ELSE [docs EXCEPT ![FirstFound(FindDonations(docs, orderId))].status = "completed"]
\* the status of the capture route's response
CaptureStatus(orderId, result, updateThrows) ==
    IF orderId = NoOrderId THEN 400
    ELSE IF result # "success" THEN 500
    ELSE IF updateThrows THEN 500
    ELSE 200

NoRequest ==
    [n |-> 0, route |-> "none", orderId |-> NoOrderId, result |-> "failure", code |-> 0]

(***************************************************************************)
(* Part 2: after-change hooks of a chart write                             *)
(*   afterChange: [updateTickerStatsHook, updateTickerTagsHook]; each      *)
(*   await is a point where other invocations run.                         *)
(***************************************************************************)
Writes == 1..MaxWrites
TickerIds == {"T1", "T2"}
TagIds == {1, 2}
\* the tags a written chart can carry
ChartTagSets == {{}, {1}, {1, 2}}
NoChart == [exists |-> FALSE, ticker |-> "T1", tags |-> {}]
Chart(k, ts) == [exists |-> TRUE, ticker |-> k, tags |-> ts]

\* payload.find({collection: 'charts', where: {ticker: {equals: tickerId}}})
FindCharts(k) == {c \in Writes : chart[c].exists /\ chart[c].ticker = k}
\* allTagIds and tagCountMap built from the found charts
AllTagIds(found) == UNION {chart[c].tags : c \in found}
TagCount(found, t) == Cardinality({c \in found : t \in chart[c].tags})

\* what each hook's catch block does with an error
StatsHookOnError == "returnDoc"
TagsHookRethrows == "throw"
TagsHookOnError == "returnDoc"

\* invocation w returns (how = "doc"), throws (how = "thrown") or goes on
\* (how = "none"); threw: one of its calls threw
Returned(w, how, threw) ==
    outcome' = [result |-> [outcome.result EXCEPT ![w] = how],
                threw |-> outcome.threw \/ threw]
\* an error leaving a hook aborts the write: the chart is not stored
Aborted(w) ==
    /\ chart' = [chart EXCEPT ![w] = NoChart]
    /\ pc' = [pc EXCEPT ![w] = "done"]
    /\ Returned(w, "thrown", TRUE)
\* the find result is a local of the hook: gone when the hook is left
Forget(w) == seen' = [seen EXCEPT ![w] = {}]

Init ==
    /\ trade = NoTrade
    /\ last = NoWrite
    /\ chart = [w \in Writes |-> NoChart]
    /\ pc = [w \in Writes |-> "idle"]
    /\ seen = [w \in Writes |-> {}]
    /\ pending = [w \in Writes |-> {}]
    /\ outcome = [result |-> [w \in Writes |-> "none"], threw |-> FALSE]
    /\ updatingTickers = {}
    /\ updatingTags = {}
    /\ tickers = [k \in TickerIds |-> [tags |-> {}, chartsCount |-> 0]]
    /\ tagCounts = [t \in TagIds |-> 0]
    /\ derivation = NoDerivation
    /\ fetched = <<>>
    /\ leftover = EmptyArrays
    /\ snapshot = NoSnapshot
    /\ response = NoResponse
    /\ hooked = NoRun
    /\ story = NoStory
    /\ nav = [c \in ChartIds |-> NeverCreated]
    /\ walk = NoWalk
    /\ donations = <<>>
    /\ request = NoRequest

\* a chart write is stored and its first after-change hook is called:
\* updateTickerStatsHook issues its find
CommitChart(w) ==
    /\ pc[w] = "idle"
    /\ \A v \in Writes : v < w => pc[v] # "idle"
    /\ \E k \in TickerIds, ts \in ChartTagSets : chart' = [chart EXCEPT ![w] = Chart(k, ts)]
    /\ pc' = [pc EXCEPT ![w] = "statsFind"]
    /\ UNCHANGED <<tradeVars, queryVars, calcVars, navVars, donationVars, seen, pending, outcome, updatingTickers, updatingTags,
                   tickers, tagCounts>>

\* updateTickerStatsHook: the count find returns
StatsFindReturns(w) ==
    /\ pc[w] = "statsFind"
    /\ seen' = [seen EXCEPT ![w] = FindCharts(chart[w].ticker)]
    /\ pc' = [pc EXCEPT ![w] = "statsUpdate"]
    /\ UNCHANGED <<tradeVars, queryVars, calcVars, navVars, donationVars, chart, pending, outcome, updatingTickers, updatingTags,
                   tickers, tagCounts>>

\* updateTickerTagsHook is called: guard check, then the mark is set and
\* the charts find issued.  It runs in the same turn of the event loop as
\* the return of updateTickerStatsHook (no await lies between them).
TagsEnter(w, threw) ==
    IF chart[w].ticker \in updatingTickers
    THEN /\ pc' = [pc EXCEPT ![w] = "done"]
         /\ Returned(w, "doc", threw)
         /\ UNCHANGED updatingTickers
    ELSE /\ updatingTickers' = updatingTickers \cup {chart[w].ticker}
         /\ pc' = [pc EXCEPT ![w] = "tagsFind"]
         /\ Returned(w, "none", threw)

\* updateTickerStatsHook: the ticker update returns; the hook returns doc
StatsUpdateReturns(w) ==
    /\ pc[w] = "statsUpdate"
    /\ tickers' = [tickers EXCEPT ![chart[w].ticker].chartsCount = Cardinality(seen[w])]
    /\ TagsEnter(w, FALSE)
    /\ Forget(w)
    /\ UNCHANGED <<tradeVars, queryVars, calcVars, navVars, donationVars, chart, pending, updatingTags, tagCounts>>

\* updateTickerStatsHook: the find or the update throws; catch
StatsThrows(w) ==
    /\ pc[w] \in {"statsFind", "statsUpdate"}
    /\ IF StatsHookOnError = "returnDoc"
       THEN /\ TagsEnter(w, TRUE)
            /\ UNCHANGED chart
       ELSE /\ Aborted(w)
            /\ UNCHANGED updatingTickers
    /\ Forget(w)
    /\ UNCHANGED <<tradeVars, queryVars, calcVars, navVars, donationVars, pending, updatingTags, tickers, tagCounts>>

\* updateTickerTagsHook: the charts find returns
TagsFindReturns(w) ==
    /\ pc[w] = "tagsFind"
    /\ seen' = [seen EXCEPT ![w] = FindCharts(chart[w].ticker)]
    /\ pc' = [pc EXCEPT ![w] = "tagsTicker"]
    /\ UNCHANGED <<tradeVars, queryVars, calcVars, navVars, donationVars, chart, pending, outcome, updatingTickers, updatingTags,
                   tickers, tagCounts>>

\* Promise.all resolves: the ticker mark is removed, the hook returns doc
TagsAllDone(w) ==
    /\ updatingTickers' = updatingTickers \ {chart[w].ticker}
    /\ pc' = [pc EXCEPT ![w] = "done"]
    /\ Returned(w, "doc", FALSE)
    /\ Forget(w)

\* updateTickerTagsHook: the ticker update returns; every tag-count update
\* whose tag is not already being updated is started, and Promise.all is
\* awaited (it resolves at once when no update was started)
TagsTickerUpdateReturns(w) ==
    /\ pc[w] = "tagsTicker"
    /\ tickers' = [tickers EXCEPT ![chart[w].ticker].tags = AllTagIds(seen[w])]
    /\ pending' = [pending EXCEPT ![w] = AllTagIds(seen[w]) \ updatingTags]
    /\ updatingTags' = updatingTags \cup AllTagIds(seen[w])
    /\ IF AllTagIds(seen[w]) \subseteq updatingTags
       THEN TagsAllDone(w)
       ELSE /\ pc' = [pc EXCEPT ![w] = "tagsAll"]
            /\ UNCHANGED <<seen, outcome, updatingTickers>>
    /\ UNCHANGED <<tradeVars, queryVars, calcVars, navVars, donationVars, chart, tagCounts>>

\* the catch block of updateTickerTagsHook
TagsCatchKeepsMark(w) ==
    /\ UNCHANGED updatingTickers
    /\ pc' = [pc EXCEPT ![w] = "done"]
    /\ Returned(w, "doc", TRUE)
    /\ UNCHANGED chart
TagsCatch(w) ==
    /\ updatingTickers' = updatingTickers \ {chart[w].ticker}
    /\ IF TagsHookOnError = "returnDoc"
       THEN /\ pc' = [pc EXCEPT ![w] = "done"]
            /\ Returned(w, "doc", TRUE)
            /\ UNCHANGED chart
       ELSE Aborted(w)

\* updateTickerTagsHook: the find or the ticker update throws
TagsThrows(w) ==
    /\ pc[w] \in {"tagsFind", "tagsTicker"}
    /\ TagsCatch(w)
    /\ Forget(w)
    /\ UNCHANGED <<tradeVars, queryVars, calcVars, navVars, donationVars, pending, updatingTags, tickers, tagCounts>>

\* one tag-count update returns (finally: the tag mark is removed); when it
\* is the last one the hook awaits, Promise.all resolves
TagUpdateReturns(w, t) ==
    /\ t \in pending[w]
    /\ tagCounts' = [tagCounts EXCEPT ![t] = TagCount(seen[w], t)]
    /\ pending' = [pending EXCEPT ![w] = @ \ {t}]
    /\ updatingTags' = updatingTags \ {t}
    /\ IF pending[w] # {t} THEN UNCHANGED <<pc, seen, outcome, updatingTickers>>
       ELSE IF pc[w] = "tagsAll" THEN TagsAllDone(w)
       ELSE Forget(w) /\ UNCHANGED <<pc, outcome, updatingTickers>>
    /\ UNCHANGED <<tradeVars, queryVars, calcVars, navVars, donationVars, chart, tickers>>

\* one tag-count update throws (finally: the tag mark is removed); if the
\* hook still awaits Promise.all, that rejects and the catch block runs
\* while the other tag-count updates stay in flight
TagUpdateThrows(w, t) ==
    /\ t \in pending[w]
    /\ pending' = [pending EXCEPT ![w] = @ \ {t}]
    /\ updatingTags' = updatingTags \ {t}
    /\ IF pc[w] = "tagsAll"
       THEN TagsCatch(w)
       ELSE UNCHANGED <<chart, pc, outcome, updatingTickers>>
    /\ IF pending[w] = {t} THEN Forget(w) ELSE UNCHANGED seen
    /\ UNCHANGED <<tradeVars, queryVars, calcVars, navVars, donationVars, tickers, tagCounts>>

NextRollup ==
    \E w \in Writes :
        \/ CommitChart(w)
        \/ StatsFindReturns(w)
        \/ StatsUpdateReturns(w)
        \/ StatsThrows(w)
        \/ TagsFindReturns(w)
        \/ TagsTickerUpdateReturns(w)
        \/ TagsThrows(w)
        \/ \E t \in TagIds : TagUpdateReturns(w, t)
        \/ \E t \in TagIds : TagUpdateThrows(w, t)
SpecRollup == Init /\ [][NextRollup]_vars

(***************************************************************************)
(* Specifications of the trade write path                                  *)
(***************************************************************************)
\* Spec explores every exit ledger, total and submitted status
Next ==
    \/ Create(Ledgers, {0}, {0})
    \/ Update(LedgerPatches(Ledgers) \cup SharesPatches \cup StatusPatches)
    \/ Delete
Spec == Init /\ [][Next]_vars

\* SpecEdit explores the other fields of a write over short ledgers
NextEdit ==
    \/ Create(ShortLedgers, {0} \cup TargetValues, UserPreferences)
    \/ Update(LedgerPatches(ShortLedgers) \cup SharesPatches \cup StatusPatches
                 \cup TargetPatches \cup StopNotePatches)
    \/ Delete
SpecEdit == Init /\ [][NextEdit]_vars

(***************************************************************************)
(* Part 3: calls of the status derivation, of calculateTradeStats and of   *)
(* GET /stats                                                              *)
(***************************************************************************)
\* status.hooks.beforeChange is run on (value, siblingData); one run is followed
DeriveStatus ==
    /\ ~derivation.called
    /\ \E value \in StatusValues, exits \in RawLedgers, shares \in 0..MaxShares :
          derivation' =
              [called |-> TRUE, value |-> value, exits |-> exits, shares |-> shares,
               totalSharesExited |-> TotalSharesExited(exits),
               status |-> StatusBeforeChange(value, exits, shares)]
    /\ UNCHANGED <<tradeVars, rollupVars, calcVars, navVars, donationVars, fetched, leftover, snapshot, response>>
NextDerive == DeriveStatus
SpecDerive == Init /\ [][NextDerive]_vars

\* calculateTradeStats(trades) is called
Calculate(trades) ==
    /\ fetched' = trades
    /\ leftover' = ArraysAfter(trades, leftover)
    /\ snapshot' =
          [called |-> TRUE,
           stats |-> CalculateTradeStats(trades, leftover),
           normalizedInvestment |->
              NormalizedInvestment(SelectSeq(trades, HasNormalizedMetrics))]
    /\ UNCHANGED <<tradeVars, rollupVars, calcVars, navVars, donationVars, derivation, response>>

\* ... on an empty array
StatsOfNone == Calculate(<<>>)
\* ... on the last array with one more trade
StatsOfMore ==
    /\ Len(fetched) < MaxTrades
    /\ \E t \in StatTrades : Calculate(Append(fetched, t))
\* ... on the last array with two neighbours exchanged
StatsOfShuffled ==
    \E i \in 1..(Len(fetched) - 1) :
        Calculate([fetched EXCEPT ![i] = fetched[i + 1], ![i + 1] = fetched[i]])
\* ... on the last array again
StatsAgain ==
    /\ snapshot.called
    /\ Calculate(fetched)
NextStats ==
    \/ StatsOfNone
    \/ StatsOfMore
    \/ StatsOfShuffled
    \/ StatsAgain
SpecStats == Init /\ [][NextStats]_vars

\* GET /stats is handled; the handler keeps nothing between requests, so
\* one request is followed
StatsRequest ==
    /\ response = NoResponse
    /\ \E docs \in SeqsUpTo(EndpointTrades, MaxDocs), startDate \in QueryDays,
          endDate \in QueryDays, tickerId \in QueryTickers, statusFilter \in StatusFilters,
          tz \in TimeZones :
          /\ response' =
                StatsResponse(docs, startDate, endDate, tickerId, statusFilter, tz, leftover)
          /\ leftover' = ArraysAfter(response'.filteredTrades, leftover)
    /\ UNCHANGED <<tradeVars, rollupVars, calcVars, navVars, donationVars, derivation, fetched, snapshot>>
\* payload.find throws: the catch block answers 500
StatsRequestFails ==
    /\ response = NoResponse
    /\ response' = ErrorResponse
    /\ UNCHANGED <<tradeVars, rollupVars, calcVars, navVars, donationVars, derivation, fetched, leftover, snapshot>>
NextEndpoint ==
    \/ StatsRequest
    \/ StatsRequestFails
SpecEndpoint == Init /\ [][NextEndpoint]_vars

(***************************************************************************)
(* Part 4: runs of the field hooks on one trade                            *)
(***************************************************************************)
\* a write presents siblingData to the hooks of status, daysHeld and
\* positionSize
RunHooks ==
    /\ hooked.runs = 0
    /\ \E data \in HookInputs :
          hooked' =
              [runs |-> 1, data |-> data, now |-> FirstClock,
               out |-> DerivedFields(data, FirstClock),
               before |-> NoRun.out, earlier |-> 0]
    /\ UNCHANGED <<tradeVars, rollupVars, queryVars, navVars, donationVars, story>>
\* a later write of the same trade submits the same inputs; the derived
\* fields in siblingData are those the run before stored
RerunHooks ==
    /\ hooked.runs \in 1..(MaxRuns - 1)
    /\ \E step \in ClockSteps :
          LET data == Resubmitted(hooked.data, hooked.out)
              now == hooked.now + step
          IN  hooked' =
                  [runs |-> hooked.runs + 1, data |-> data, now |-> now,
                   out |-> DerivedFields(data, now),
                   before |-> hooked.out, earlier |-> hooked.now]
    /\ UNCHANGED <<tradeVars, rollupVars, queryVars, navVars, donationVars, story>>
NextHooks ==
    \/ RunHooks
    \/ RerunHooks
SpecHooks == Init /\ [][NextHooks]_vars

\* GET /:id/story for a stored trade
StoryRequest ==
    /\ story = NoStory
    /\ \E t \in StoredTrades : story' = StoryResponse(t)
    /\ UNCHANGED <<tradeVars, rollupVars, queryVars, navVars, donationVars, hooked>>
\* ... without an id (400), for a trade findByID yields nothing for (404),
\* or with findByID or find throwing (500)
StoryRequestRefused ==
    /\ story = NoStory
    /\ \E code \in {400, 404, 500} : story' = [code |-> code]
    /\ UNCHANGED <<tradeVars, rollupVars, queryVars, navVars, donationVars, hooked>>
NextStory ==
    \/ StoryRequest
    \/ StoryRequestRefused
SpecStory == Init /\ [][NextStory]_vars

(***************************************************************************)
(* Part 5: chart creations and deletions, and walks over the charts        *)
(***************************************************************************)
\* a chart is created (ids in order of creation); the rollup hooks return
\* and the third afterChange hook issues its find
CreateChart(c) ==
    /\ walk = NoWalk
    /\ nav[c].pc = "new"
    /\ \A b \in ChartIds : b < c => nav[b].pc # "new"
    /\ nav' = [nav EXCEPT ![c] = [exists |-> TRUE, keyboardNavId |-> 0, pc |-> "find",
                                  count |-> 0]]
    /\ UNCHANGED <<tradeVars, rollupVars, queryVars, calcVars, donationVars, walk>>
\* the count find returns
NavFindReturns(c) ==
    /\ nav[c].pc = "find"
    /\ nav' = [nav EXCEPT ![c].pc = "update", ![c].count = TotalDocs(nav)]
    /\ UNCHANGED <<tradeVars, rollupVars, queryVars, calcVars, donationVars, walk>>
\* the update of the chart returns (it throws, and is caught, when the
\* chart has been deleted meanwhile); the hook returns doc
NavUpdateReturns(c) ==
    /\ nav[c].pc = "update"
    /\ nav' = [nav EXCEPT ![c].pc = "done",
                          ![c].keyboardNavId =
                              IF nav[c].exists THEN KeyboardNavIdBeforeChange(nav[c].count)
                              ELSE 0]
    /\ UNCHANGED <<tradeVars, rollupVars, queryVars, calcVars, donationVars, walk>>
\* the find or the update throws: catch, console.error, return doc
NavThrows(c) ==
    /\ nav[c].pc \in {"find", "update"}
    /\ nav' = [nav EXCEPT ![c].pc = "done"]
    /\ UNCHANGED <<tradeVars, rollupVars, queryVars, calcVars, donationVars, walk>>
\* a chart is deleted
DeleteChart(c) ==
    /\ walk = NoWalk
    /\ nav[c].exists
    /\ nav' = [nav EXCEPT ![c].exists = FALSE, ![c].keyboardNavId = 0]
    /\ UNCHANGED <<tradeVars, rollupVars, queryVars, calcVars, donationVars, walk>>

\* a client opens chart c and will page through the charts in one direction;
\* walks are followed over settled collections in which every chart has
\* been given its keyboardNavId
StartWalk(c, dir) ==
    /\ walk = NoWalk
    /\ \A b \in ChartIds : nav[b].pc \in {"new", "done"}
    /\ \A b \in StoredCharts : nav[b].keyboardNavId # 0
    /\ c \in StoredCharts
    /\ walk' = [dir |-> dir, start |-> c, at |-> c, visited |-> {c}, steps |-> 0]
    /\ UNCHANGED <<tradeVars, rollupVars, queryVars, calcVars, donationVars, nav>>
Step(answers) ==
    /\ walk.steps < MaxCharts
    /\ \E c \in answers :
          walk' = [walk EXCEPT !.at = c, !.visited = @ \cup {c}, !.steps = @ + 1]
    /\ UNCHANGED <<tradeVars, rollupVars, queryVars, calcVars, donationVars, nav>>
\* GET /next/:id for the chart the client is at
NextRequest ==
    /\ walk.dir = "next"
    /\ Step(NextCharts(walk.at))
\* GET /previous/:id
PreviousRequest ==
    /\ walk.dir = "previous"
    /\ Step(PreviousCharts(walk.at))
NextNav ==
    \/ \E c \in ChartIds :
          \/ CreateChart(c)
          \/ NavFindReturns(c)
          \/ NavUpdateReturns(c)
          \/ NavThrows(c)
          \/ DeleteChart(c)
          \/ \E dir \in Directions : StartWalk(c, dir)
    \/ NextRequest
    \/ PreviousRequest
SpecNav == Init /\ [][NextNav]_vars

(***************************************************************************)
(* Part 6: requests to the donation routes                                 *)
(***************************************************************************)
\* POST /api/donations: the amount is checked, the payment started and the
\* donation record created with status 'initiated'
DonationRequest ==
    /\ request.n < MaxRequests
    /\ \E amount \in Amounts, result \in GatewayResults, paymentId \in PaymentIds,
          createThrows \in BOOLEAN :
          LET code == IF amount < 1 THEN 400
                      ELSE IF result # "success" \/ createThrows THEN 500
                      ELSE 200
          IN  /\ code = 200 => Len(donations) < MaxDonations
              /\ donations' = IF code = 200
                              THEN Append(donations, Donation(paymentId, "initiated"))
                              ELSE donations
              /\ request' = [n |-> request.n + 1, route |-> "donations",
                             orderId |-> NoOrderId, result |-> result, code |-> code]
    /\ UNCHANGED <<tradeVars, rollupVars, queryVars, calcVars, navVars>>
\* GET /api/paypal-capture?orderId=...
CaptureRequest ==
    /\ request.n < MaxRequests
    /\ \E orderId \in PaymentIds \cup {NoOrderId}, result \in GatewayResults,
          updateThrows \in BOOLEAN :
          /\ donations' = IF updateThrows THEN donations
                          ELSE Captured(donations, orderId, result)
          /\ request' = [n |-> request.n + 1, route |-> "paypal-capture",
                         orderId |-> orderId, result |-> result,
                         code |-> CaptureStatus(orderId, result, updateThrows)]
    /\ UNCHANGED <<tradeVars, rollupVars, queryVars, calcVars, navVars>>
NextDonations ==
    \/ DonationRequest
    \/ CaptureRequest
SpecDonations == Init /\ [][NextDonations]_vars

(***************************************************************************)
(* Claims                                                                  *)
(***************************************************************************)
\* cumulative exited shares of a stored ledger
RECURSIVE Cumulative(_)
Cumulative(exits) == IF exits = <<>> THEN 0 ELSE Head(exits) + Cumulative(Tail(exits))

Wrote == last.ok /\ last.op \in {"create", "update"}

\* C1: after every write whose ledger has cumulative exited shares c > 0 the
\* stored status is closed when c >= total shares (over-exited included) and
\* partial when 0 < c < total shares, whatever status the write submitted.
C1_StatusFromLedger ==
    (trade.exists /\ Cumulative(trade.exits) > 0) =>
        trade.status = IF Cumulative(trade.exits) >= trade.shares THEN "closed" ELSE "partial"
C1_Witness ==
    /\ Wrote /\ trade.exists
    /\ Cumulative(trade.exits) > trade.shares /\ trade.shares > 0
    /\ last.value = "open" /\ trade.status = "closed"

C3_Original == trade.exists => Cumulative(trade.exits) <= trade.shares

\* C4 (as claimed): the stored status goes from open to closed in one write
\* only if the very first recorded exit covers all shares.
C4_Original ==
    [][(trade.exists /\ trade'.exists /\ trade.status = "open" /\ trade'.status = "closed") =>
         (Len(trade'.exits) > 0 /\ trade'.exits[1] >= trade'.shares)]_vars
\* C4 (amended): the stored status goes from open to closed in one write only
\* if the ledger stored by that write is non-empty and its cumulative exited
\* shares (over one or several records) cover the total, or closed was the
\* status value submitted with the write.
C4_OpenToClosed ==
    [][(trade.exists /\ trade'.exists /\ trade.status = "open" /\ trade'.status = "closed") =>
         \/ Len(trade'.exits) > 0 /\ Cumulative(trade'.exits) >= trade'.shares
         \/ "status" \in last'.fields /\ last'.value = "closed"]_vars
\* an update of the ledger alone took an open trade to closed with two
\* records of which the first does not cover the total
C4_Witness ==
    /\ Wrote /\ last.op = "update" /\ last.fields = {"exits"} /\ last.value = "open"
    /\ trade.status = "closed" /\ Len(trade.exits) = 2
    /\ trade.exits[1] > 0 /\ trade.exits[1] < trade.shares

\* C5 (as claimed): whenever cumulative exited shares is 0 the stored status
\* is the status value the derivation received, and open when it received
\* none.
C5_Original ==
    (Wrote /\ trade.exists /\ Cumulative(trade.exits) = 0) =>
        trade.status = IF last.value = "null" THEN "open" ELSE last.value
\* C5 (amended): the same, for an empty exit list or a trade whose total
\* shares is positive; a non-empty ledger contributing 0 against a total of
\* 0 shares is stored as closed.
C5_KeepsValue ==
    (Wrote /\ trade.exists /\ Cumulative(trade.exits) = 0) =>
        trade.status =
            IF Len(trade.exits) > 0 /\ trade.shares = 0 THEN "closed"
            ELSE IF last.value = "null" THEN "open" ELSE last.value
\* exits that all contribute 0, no status value received: open
C5_Witness ==
    /\ Wrote /\ trade.exists /\ Len(trade.exits) > 0 /\ Cumulative(trade.exits) = 0
    /\ trade.shares > 0 /\ last.value = "null" /\ trade.status = "open"

\* C9 (as claimed): no update changes the stored targetPositionSize.
C9_Original ==
    [][(trade.exists /\ trade'.exists) =>
         trade'.targetPositionSize = trade.targetPositionSize]_vars

\* C10: an update that submits only stop-modification records and/or notes
\* leaves the stored status (and the ledger and total it is derived from)
\* unchanged.
C10_StatusFrame ==
    [][(last'.ok /\ last'.op = "update" /\ last'.fields # {}
          /\ last'.fields \subseteq {"modifiedStops", "notes"}) =>
         /\ trade'.status = trade.status
         /\ trade'.exits = trade.exits
         /\ trade'.shares = trade.shares]_vars
\* a stop was appended and the notes edited on a trade set to partial by
\* hand (no exits), and on one closed by its ledger
C10_Witness ==
    /\ Wrote /\ last.op = "update" /\ last.fields = {"modifiedStops", "notes"}
    /\ trade.stops > 0 /\ trade.notes = "n1"
    /\ trade.status = "partial" /\ trade.exits = <<>>

\* invocation w is past the guard of updateTickerTagsHook and has a read or
\* a write outstanding (its pending tag-count updates included)
InFlight(w) == pc[w] \in {"tagsFind", "tagsTicker", "tagsAll"} \/ pending[w] # {}
AllReturned == \A w \in Writes : pc[w] \in {"idle", "done"} /\ pending[w] = {}

\* C6 (as claimed): at no moment are two invocations of updateTickerTagsHook
\* for the same ticker both past the guard check with reads or writes (their
\* pending tag-count updates included) outstanding.
C6_Original ==
    \A v, w \in Writes :
        (v # w /\ chart[v].exists /\ chart[w].exists /\ chart[v].ticker = chart[w].ticker) =>
            ~(InFlight(v) /\ InFlight(w))

\* C7 (as claimed): once every hook has returned, and none of their calls
\* threw, the tag set rolled up on each ticker is the tag set of all stored
\* charts of that ticker.
C7_Original ==
    (AllReturned /\ ~outcome.threw) =>
        \A k \in TickerIds : tickers[k].tags = AllTagIds(FindCharts(k))

\* C8: whatever find or update throws inside an after-change hook, the
\* invocation returns the document: no invocation ends by throwing and the
\* chart whose write triggered it stays stored.
C8_FailureSwallowed ==
    \A w \in Writes :
        /\ outcome.result[w] # "thrown"
        /\ pc[w] = "done" => (outcome.result[w] = "doc" /\ chart[w].exists)
\* calls threw, every invocation has returned its document, every write is stored
C8_Witness ==
    /\ outcome.threw
    /\ \A w \in Writes : pc[w] = "done" /\ outcome.result[w] = "doc" /\ chart[w].exists

\* C11: in the cumulative exited shares the status derivation computes, an
\* exit whose shares value is malformed or missing contributes 0, a numeric
\* string contributes its numeric value, and for every ledger the derivation
\* resolves to a status.
ClaimedContribution(e) == IF e.k \in {"num", "str"} THEN e.n ELSE 0
RECURSIVE ClaimedCumulative(_)
ClaimedCumulative(exits) ==
    IF exits = <<>> THEN 0
    ELSE ClaimedContribution(Head(exits)) + ClaimedCumulative(Tail(exits))
RECURSIVE LatestOf(_)
LatestOf(dates) ==
    IF Len(dates) = 1 THEN Head(dates)
    ELSE IF Head(dates) >= LatestOf(Tail(dates)) THEN Head(dates) ELSE LatestOf(Tail(dates))
ClaimedCompletion(t) == IF t.exitDates = <<>> THEN t.entryDate ELSE LatestOf(t.exitDates)
\* the first instant of a day, and the last instant of that day on the
\* calendar of a process tz ticks ahead of UTC
StartOfDay(day) == day * DayTicks
EndOfDay(day, tz) == (day + 1) * DayTicks - 1 - tz
ClaimedInWindow(t, startDate, endDate, tz) ==
    /\ startDate # NoDate => ClaimedCompletion(t) >= StartOfDay(startDate)
    /\ endDate # NoDate => ClaimedCompletion(t) <= EndOfDay(endDate, tz)

\* C12 (as claimed): when a start and/or end date is given, a fetched trade
\* is included if and only if its completion date (latest exit date, or the
\* entry date without exits) is not before the start date and not after the
\* end of the end date's day.
C12_Original ==
    (response.code = 200 /\ (response.startDate # NoDate \/ response.endDate # NoDate)) =>
        response.filteredTrades =
            SelectSeq(response.found,
                      LAMBDA t : ClaimedInWindow(t, response.startDate, response.endDate,
                                                 response.tz))

\* the answer the same request gets when the open trades are taken out of
\* the collection
WithoutOpen(docs) == SelectSeq(docs, LAMBDA t : t.status # "open")
AnswerWithoutOpen ==
    StatsResponse(WithoutOpen(response.docs), response.startDate, response.endDate,
                  response.tickerId, response.statusFilter, response.tz, EmptyArrays)

\* C13: the endpoint reduces only closed trades when statusFilter is
\* closed-only, and only closed or partial trades otherwise; an open trade
\* contributes to no statistic and to no metadata count (the answer is the
\* one the collection without its open trades gets).
C13_OpenNeverCounts ==
    response.code = 200 =>
        /\ \A i \in 1..Len(response.filteredTrades) :
              response.filteredTrades[i].status \in
                 (IF response.statusFilter = "closed-only" THEN {"closed"}
                  ELSE {"closed", "partial"})
        /\ response.stats = AnswerWithoutOpen.stats
        /\ response.metadata = AnswerWithoutOpen.metadata
        /\ response.metadata.closedTrades + response.metadata.partialTrades
              = response.metadata.totalTrades
\* an open and a partial trade both completed inside the requested window,
\* default status filter: only the partial one is counted
C13_Witness ==
    /\ response.code = 200 /\ response.statusFilter = "all"
    /\ response.startDate = 1 /\ response.endDate = 1 /\ response.tz = 0
    /\ Len(response.docs) = 2
    /\ response.docs[1].status = "open" /\ response.docs[1].exitDates = <<7>>
    /\ response.docs[2].status = "partial" /\ response.docs[2].exitDates = <<7>>
    /\ response.metadata.totalTrades = 1 /\ response.metadata.partialTrades = 1
    /\ response.stats.totalTrades = Rat(1)

ZeroSnapshot ==
    [totalTrades |-> Zero, winningTrades |-> Zero, losingTrades |-> Zero,
     breakEvenTrades |-> Zero, battingAverage |-> Zero, averageWinPercent |-> Zero,
     averageLossPercent |-> Zero, winLossRatio |-> Zero, adjustedWinLossRatio |-> Zero,
     averageRRatio |-> Zero, profitFactor |-> Zero, expectancy |-> Zero,
     averageDaysHeldWinners |-> Zero, averageDaysHeldLosers |-> Zero,
     maxGainPercent |-> Zero, maxLossPercent |-> Zero, maxGainLossRatio |-> Zero,
     totalProfitLoss |-> Zero, totalProfitLossPercent |-> Zero,
     tradeStatusCounts |-> [closed |-> Zero, partial |-> Zero],
     normalized |->
        [totalProfitLoss |-> Zero, totalProfitLossPercent |-> Zero, averageRRatio |-> Zero,
         profitFactor |-> Zero, maxGainPercent |-> Zero, maxLossPercent |-> Zero,
         maxGainLossRatio |-> Zero, averageWinPercent |-> Zero, averageLossPercent |-> Zero,
         winLossRatio |-> Zero, adjustedWinLossRatio |-> Zero, expectancy |-> Zero]]

\* C14: for an empty trade set calculateTradeStats returns a snapshot in
\* which every field, the normalized sub-section and both status counts
\* included, is 0.
C14_EmptyIsAllZero ==
    (snapshot.called /\ fetched = <<>>) => snapshot.stats = ZeroSnapshot
C14_Witness ==
    snapshot.called /\ fetched = <<>> /\ snapshot.stats.battingAverage = Zero

RawFields ==
    {"totalTrades", "winningTrades", "losingTrades", "breakEvenTrades", "battingAverage",
     "averageWinPercent", "averageLossPercent", "winLossRatio", "adjustedWinLossRatio",
     "averageRRatio", "profitFactor", "expectancy", "averageDaysHeldWinners",
     "averageDaysHeldLosers", "maxGainPercent", "maxLossPercent", "maxGainLossRatio",
     "totalProfitLoss", "totalProfitLossPercent"}
NormalizedFields ==
    {"totalProfitLoss", "totalProfitLossPercent", "averageRRatio", "profitFactor",
     "maxGainPercent", "maxLossPercent", "maxGainLossRatio", "averageWinPercent",
     "averageLossPercent", "winLossRatio", "adjustedWinLossRatio", "expectancy"}
RECURSIVE Total(_)
Total(values) == IF values = <<>> THEN Zero ELSE Add(Head(values), Total(Tail(values)))

\* C15: for a non-empty trade set no raw or normalized statistic is NaN or
\* infinite, and every ratio whose denominator is zero is 0: no losers or
\* average loss 0 (win/loss ratios), gross losses 0 (profit factor), max
\* loss 0 (max gain/loss ratio), batting average 100 (adjusted ratio), total
\* invested 0 and normalized investment 0 (total profit/loss percent).
C15_ZeroDenominatorIsZero ==
    (snapshot.called /\ fetched # <<>>) =>
        LET s == snapshot.stats
            losers == {i \in 1..Len(fetched) : fetched[i].profitLossPercent.n < 0}
            loserTrades == SelectSeq(fetched, LAMBDA t : t.profitLossPercent.n < 0)
            normalizedLosers ==
                {i \in 1..Len(fetched) :
                    /\ fetched[i].normalizedMetrics.present
                    /\ fetched[i].normalizedMetrics.profitLossPercent.n < 0}
        IN  /\ \A f \in RawFields : s[f].d # 0
            /\ \A f \in NormalizedFields : s.normalized[f].d # 0
            /\ s.tradeStatusCounts.closed.d # 0 /\ s.tradeStatusCounts.partial.d # 0
            /\ (losers = {} \/ s.averageLossPercent = Zero) =>
                  s.winLossRatio = Zero /\ s.adjustedWinLossRatio = Zero
            /\ Total([i \in 1..Len(loserTrades) |-> loserTrades[i].profitLossAmount]) = Zero =>
                  s.profitFactor = Zero
            /\ s.maxLossPercent = Zero => s.maxGainLossRatio = Zero
            /\ s.battingAverage = Hundred => s.adjustedWinLossRatio = Zero
            /\ Total([i \in 1..Len(fetched) |->
                         Mul(fetched[i].entryPrice, fetched[i].shares)]) = Zero =>
                  s.totalProfitLossPercent = Zero
            /\ snapshot.normalizedInvestment = Zero =>
                  s.normalized.totalProfitLossPercent = Zero
            /\ (normalizedLosers = {} \/ s.normalized.averageLossPercent = Zero) =>
                  /\ s.normalized.winLossRatio = Zero
                  /\ s.normalized.adjustedWinLossRatio = Zero
            /\ s.normalized.maxLossPercent = Zero => s.normalized.maxGainLossRatio = Zero
\* winners only: batting average 100, no losers, gross losses 0, max loss 0
C15_Witness ==
    /\ snapshot.called /\ Len(fetched) >= 2
    /\ snapshot.stats.battingAverage = Hundred /\ snapshot.stats.losingTrades = Zero
    /\ snapshot.stats.averageWinPercent.n > 0
    /\ snapshot.stats.profitFactor = Zero /\ snapshot.stats.maxGainLossRatio = Zero

\* C16: every input trade is counted in exactly one of winningTrades
\* (profitLossPercent > 0), losingTrades (< 0) and breakEvenTrades
\* (otherwise), so the three counts add up to totalTrades.
C16_Partition ==
    snapshot.called =>
        LET s == snapshot.stats
        IN  /\ s.totalTrades = Rat(Len(fetched))
            /\ s.winningTrades =
                  Rat(Cardinality({i \in 1..Len(fetched) : fetched[i].profitLossPercent.n > 0}))
            /\ s.losingTrades =
                  Rat(Cardinality({i \in 1..Len(fetched) : fetched[i].profitLossPercent.n < 0}))
            /\ s.breakEvenTrades =
                  Rat(Cardinality({i \in 1..Len(fetched) :
                                      /\ ~(fetched[i].profitLossPercent.n > 0)
                                      /\ ~(fetched[i].profitLossPercent.n < 0)}))
            /\ s.winningTrades.n + s.losingTrades.n + s.breakEvenTrades.n = s.totalTrades.n
\* a winner, a loser and a break-even trade, one of each counted
C16_Witness ==
    /\ snapshot.called /\ Len(fetched) = 3
    /\ snapshot.stats.winningTrades = Rat(1) /\ snapshot.stats.losingTrades = Rat(1)
    /\ snapshot.stats.breakEvenTrades = Rat(1)

\* the second array is the first with one more trade, one that carries no
\* normalizedMetrics
GrewByUnnormalized(before, after) ==
    /\ Len(after) = Len(before) + 1
    /\ SubSeq(after, 1, Len(before)) = before
    /\ ~after[Len(after)].normalizedMetrics.present

\* C17 (as claimed): adding to the input a trade that lacks normalizedMetrics
\* leaves every normalized statistic unchanged.
C17_Original ==
    [][(snapshot.called /\ snapshot'.called /\ GrewByUnnormalized(fetched, fetched')) =>
          snapshot'.stats.normalized = snapshot.stats.normalized]_vars

\* C18 (as claimed): the estimated normalized investment is the sum of
\* positionSize / normalizationFactor over exactly the trades that carry a
\* (positive) normalization factor; a trade without one contributes nothing.
C18_Original ==
    snapshot.called =>
        LET carrying ==
                SelectSeq(fetched, LAMBDA t : t.normalizationFactor.n > 0)
        IN  snapshot.normalizedInvestment =
                Total([i \in 1..Len(carrying) |->
                         Div(carrying[i].positionSize, carrying[i].normalizationFactor)])
\* C18 (amended): the estimated normalized investment is the sum, over
\* exactly the trades that carry normalizedMetrics, of positionSize divided
\* by the trade's normalization factor, the factor counting as 1 when it is
\* missing or 0; a trade whose factor is negative contributes nothing.
C18_Investment ==
    snapshot.called =>
        LET participating ==
                SelectSeq(fetched, LAMBDA t : t.normalizedMetrics.present
                                                /\ ~(t.normalizationFactor.n < 0))
        IN  snapshot.normalizedInvestment =
                Total([i \in 1..Len(participating) |->
                         IF participating[i].normalizationFactor.n > 0
                         THEN Div(participating[i].positionSize,
                                  participating[i].normalizationFactor)
                         ELSE participating[i].positionSize])
\* a trade with normalizedMetrics and no factor (counted at factor 1) next
\* to a trade with a factor and no normalizedMetrics (not counted)
C18_Witness ==
    /\ snapshot.called /\ Len(fetched) = 2
    /\ fetched[1].normalizedMetrics.present /\ fetched[1].normalizationFactor = Undefined
    /\ ~fetched[2].normalizedMetrics.present /\ fetched[2].normalizationFactor = Rat(2)
    /\ snapshot.normalizedInvestment = fetched[1].positionSize

\* the two arrays hold the same trades, each as many times
Occurrences(arr, t) == Cardinality({i \in 1..Len(arr) : arr[i] = t})
SameTrades(a, b) ==
    /\ Len(a) = Len(b)
    /\ \A i \in 1..Len(a) : Occurrences(a, a[i]) = Occurrences(b, a[i])

FirstCallStats(trades) ==
    IF trades = <<>> THEN ZeroSnapshot
    ELSE StatsOf(trades, Separate(EmptyArrays, trades))

WinnersOf(trades) == SelectSeq(trades, LAMBDA t : t.profitLossPercent.n > 0)
LosersOf(trades) == SelectSeq(trades, LAMBDA t : t.profitLossPercent.n < 0)
AmountTotal(trades) == Total([i \in 1..Len(trades) |-> trades[i].profitLossAmount])
PercentTotal(trades) == Total([i \in 1..Len(trades) |-> trades[i].profitLossPercent])

\* C21: profitFactor is the sum of the winners' profitLossAmount divided by
\* the absolute value of the sum of the losers' profitLossAmount, winners
\* and losers decided by profitLossPercent, and 0 when the losers' sum is 0.
C21_ProfitFactor ==
    snapshot.called =>
        LET grossWins == AmountTotal(WinnersOf(fetched))
            lossSum == AmountTotal(LosersOf(fetched))
        IN  snapshot.stats.profitFactor =
                IF lossSum = Zero THEN Zero
                ELSE Div(grossWins, [n |-> Abs(lossSum.n), d |-> lossSum.d])
\* winners and losers with a non-zero loss sum: a positive profit factor
C21_Witness ==
    /\ snapshot.called /\ Len(fetched) = 3
    /\ Len(WinnersOf(fetched)) = 2 /\ Len(LosersOf(fetched)) = 1
    /\ AmountTotal(LosersOf(fetched)).n < 0
    /\ snapshot.stats.profitFactor.n > 0

\* C22: expectancy is winRate x averageWinPercent + (1 - winRate) x
\* averageLossPercent, with winRate the winners' share of all input trades
\* (break-even trades included), averageWinPercent the mean over winners and
\* averageLossPercent the signed mean over losers (0 for an empty group).
C22_Expectancy ==
    (snapshot.called /\ fetched # <<>>) =>
        LET winners == WinnersOf(fetched)
            losers == LosersOf(fetched)
            winRate == Div(Rat(Len(winners)), Rat(Len(fetched)))
            averageWin ==
                IF winners = <<>> THEN Zero
                ELSE Div(PercentTotal(winners), Rat(Len(winners)))
            averageLoss ==
                IF losers = <<>> THEN Zero
                ELSE Div(PercentTotal(losers), Rat(Len(losers)))
        IN  /\ snapshot.stats.averageWinPercent = averageWin
            /\ snapshot.stats.averageLossPercent = averageLoss
            /\ snapshot.stats.expectancy =
                  Add(Mul(winRate, averageWin),
                      Mul(Add(Rat(1), [n |-> -winRate.n, d |-> winRate.d]), averageLoss))
\* a winner, a loser and a break-even trade: win rate 1/3, not 1/2
C22_Witness ==
    /\ snapshot.called /\ Len(fetched) = 3
    /\ Len(WinnersOf(fetched)) = 1 /\ Len(LosersOf(fetched)) = 1
    /\ snapshot.stats.battingAverage = Num(100, 3)
    /\ snapshot.stats.expectancy # Zero

\* the instants of the exit dates that can be read
ReadableExitInstants(exits) == {exits[i].date.t : i \in {j \in 1..Len(exits) : exits[j].date.ok}}
LatestInstant(instants) == CHOOSE t \in instants : \A u \in instants : u <= t
DaysBetween(a, b) == CeilDays(IF a > b THEN a - b ELSE b - a)

\* C23 (as claimed): daysHeld is never negative; for a closed trade it is
\* the ceiling of the days between the entry date and the latest exit date,
\* for any other trade of the days between the entry date and the current
\* time, and 0 when the dates cannot be compared (the entry date, or every
\* exit date of a closed trade, is unreadable).  A closed trade without any
\* exit record is left open by the claim and is not constrained here.
C23_Original ==
    hooked.runs > 0 =>
        LET entryDate == hooked.data.entryDate
            instants == ReadableExitInstants(hooked.data.exits)
            daysHeld == hooked.out.daysHeld
        IN  /\ daysHeld >= 0
            /\ ~entryDate.ok => daysHeld = 0
            /\ (entryDate.ok /\ hooked.out.status # "closed") =>
                  daysHeld = DaysBetween(hooked.now, entryDate.t)
            /\ (entryDate.ok /\ hooked.out.status = "closed" /\ hooked.data.exits # <<>>) =>
                  daysHeld = IF instants = {} THEN 0
                             ELSE DaysBetween(LatestInstant(instants), entryDate.t)

\* C24 (as claimed): a later run of the derivation on the same inputs
\* reproduces the derived fields (status, positionSize, daysHeld) of the run
\* before.
C24_Original == hooked.runs >= 2 => hooked.out = hooked.before
\* C24 (amended): a later run on the same inputs reproduces status and
\* positionSize, and daysHeld of a closed trade with exit records or of a
\* trade with an unreadable entry date; daysHeld of any other trade follows
\* the clock, changing by exactly the change of the day count between the
\* entry date and the current time.
C24_Idempotent ==
    hooked.runs >= 2 =>
        LET entryDate == hooked.data.entryDate
            settled == hooked.out.status = "closed" /\ hooked.data.exits # <<>>
        IN  /\ hooked.out.status = hooked.before.status
            /\ hooked.out.positionSize = hooked.before.positionSize
            /\ (settled \/ ~entryDate.ok) => hooked.out.daysHeld = hooked.before.daysHeld
            /\ (~settled /\ entryDate.ok) =>
                  hooked.out.daysHeld - hooked.before.daysHeld =
                      DaysBetween(hooked.now, entryDate.t)
                        - DaysBetween(hooked.earlier, entryDate.t)
\* a closed trade derived again a day later: the same days held as before
C24_Witness ==
    /\ hooked.runs = 2 /\ hooked.now = hooked.earlier + DayTicks
    /\ hooked.out.status = "closed" /\ hooked.data.exits # <<>>
    /\ hooked.data.entryDate.ok /\ hooked.data.exits[1].date = Instant(9)
    /\ hooked.out.daysHeld = 2 /\ hooked.before.daysHeld = 2
    /\ hooked.out.positionSize = 2000

\* the claimed per-exit figures, summed over a ledger
RECURSIVE ClaimedRealized(_, _, _)
ClaimedRealized(type, entryPrice, exits) ==
    IF exits = <<>> THEN 0
    ELSE (IF type = "long" THEN Head(exits).price - entryPrice
          ELSE entryPrice - Head(exits).price) * Head(exits).n
           + ClaimedRealized(type, entryPrice, Tail(exits))
RECURSIVE EventTotal(_)
EventTotal(events) ==
    IF events = <<>> THEN 0 ELSE Head(events).profitLoss + EventTotal(Tail(events))

InsideTagsHook == {w \in Writes : pc[w] \in {"tagsFind", "tagsTicker", "tagsAll"}}
HooksReturned == \A w \in Writes : pc[w] \in {"idle", "done"}

\* C26: a ticker is marked exactly while an invocation that set the mark is
\* inside updateTickerTagsHook: the invocation removes it before it returns,
\* by return or by catch; no other invocation (a skipped one in particular)
\* removes it; once every invocation has returned nothing is marked, and an
\* invocation is skipped only while another one holds the mark.
C26_MarkHeldWhileInside ==
    /\ updatingTickers = {chart[w].ticker : w \in InsideTagsHook}
    /\ \A v, w \in InsideTagsHook : chart[v].ticker = chart[w].ticker => v = w
    /\ HooksReturned => updatingTickers = {}
\* a call of the first invocation threw, both invocations for one ticker
\* have returned, the second after the first: nothing is left marked
C26_Witness ==
    /\ HooksReturned /\ \A w \in Writes : pc[w] = "done" /\ chart[w].exists
    /\ outcome.threw
    /\ \A w \in Writes : chart[w].ticker = "T1"
    /\ tickers["T1"].tags = AllTagIds(Writes) /\ AllTagIds(Writes) # {}
    /\ updatingTickers = {}

\* no invocation of updateTickerStatsHook is between its call and its return
StatsHooksReturned == \A w \in Writes : pc[w] \notin {"statsFind", "statsUpdate"}

\* C27 (as claimed): once every updateTickerStatsHook invocation has
\* returned, no call having thrown, the chartsCount of every ticker that
\* has charts is the number of charts stored for it.
C27_Original ==
    (StatsHooksReturned /\ ~outcome.threw) =>
        \A k \in TickerIds :
            FindCharts(k) # {} => tickers[k].chartsCount = Cardinality(FindCharts(k))

\* C28 (as claimed): no two stored charts that have been given a
\* keyboardNavId share it.
C28_Original ==
    \A c, d \in StoredCharts :
        (c # d /\ nav[c].keyboardNavId # 0 /\ nav[d].keyboardNavId # 0) =>
            nav[c].keyboardNavId # nav[d].keyboardNavId

\* C29 (as claimed): paging with /next from any stored chart visits every
\* stored chart and is back at the start after as many requests as there
\* are charts.
C29_Original ==
    (walk.dir = "next" /\ walk.steps = Cardinality(StoredCharts)) =>
        /\ walk.at = walk.start
        /\ walk.visited = StoredCharts

\* the donations whose status is 'completed' after the step and was not
\* before it (a donation created by the step is never completed)
NewlyCompleted ==
    {i \in 1..Len(donations) :
        donations'[i].status = "completed" /\ donations[i].status # "completed"}

\* C30: a donation becomes completed only in a capture request whose
\* capturePayment call reported success for the donation's payment id; a
\* capture request without an order id, or whose capture fails or throws,
\* modifies no donation and is answered with 400 or 500.
C30_CompletedOnlyOnCapture ==
    [][/\ NewlyCompleted # {} =>
            /\ request'.n = request.n + 1 /\ request'.route = "paypal-capture"
            /\ request'.result = "success" /\ request'.code = 200
            /\ \A i \in NewlyCompleted : donations[i].paymentId = request'.orderId
       /\ (/\ request'.n = request.n + 1 /\ request'.route = "paypal-capture"
           /\ (request'.orderId = NoOrderId \/ request'.result # "success")) =>
            /\ donations' = donations
            /\ request'.code \in {400, 500}]_vars
\* one of two donations completed by a successful capture of its payment
\* id, after a failed capture that left both untouched
C30_Witness ==
    /\ Len(donations) = 2 /\ request.n >= 3
    /\ request.route = "paypal-capture" /\ request.result = "success" /\ request.code = 200
    /\ request.orderId = "P2"
    /\ donations[1] = Donation("P1", "initiated") /\ donations[2] = Donation("P2", "completed")

====
